---- MODULE Spec2Model ----
(***************************************************************************)
(* A model of the wavefront-error sources of poppy/wfe.py: the stochastic  *)
(* StatisticalPSDWFE, PowerSpectrumWFE and KolmogorovWFE, and the          *)
(* deterministic ParameterizedWFE, ZernikeWFE, SineWaveWFE and the base    *)
(* class WavefrontError.                                                   *)
(*                                                                         *)
(* One error-source object is constructed and then used by the callers     *)
(* (threads) of its methods.  A method runs as a sequence of steps, one    *)
(* step per source line (or group of lines) that reads or writes a field   *)
(* of the object, so that the fields a call reads at different lines may   *)
(* differ when another call writes them in between.                        *)
(*                                                                         *)
(* Numbers.  Lengths are integers in units of one pixel scale              *)
(* (wave.pixelscale = 1 m/pix), angles are integer degrees.  An array of   *)
(* floats is a record [n, v, vi, q, filt]: an n x n grid whose value at    *)
(* (i, j) is sqrt(q[1]/q[2]) * F(v)[i][j], where v holds the Gaussian      *)
(* samples the array was made from and F is the spectral filter named by   *)
(* filt.  For filt = "flat" F is the identity, which is exactly what the   *)
(* FFT pipeline of PowerSpectrumWFE computes for a PSD that is constant    *)
(* over the frequency grid (beta = 0, only the surface-roughness floor):   *)
(* ifft2(ifftshift(c * fftshift(fft2(x)))) = c * x.  The PSD terms of the  *)
(* model are of that kind, so its PowerSpectrumWFE arithmetic is exact.    *)
(* The power-law and turbulence filters are kept symbolic.                 *)
(***************************************************************************)
EXTENDS Integers, Sequences, FiniteSets, TLC

VARIABLES self, constructed, ctor, pc, call, loc, ret

vars == <<self, constructed, ctor, pc, call, loc, ret>>

(* ------------------------------ bounds --------------------------------- *)

\* Unpadded wavefronts are npix x npix with npix in 2..MaxNpix.
MaxNpix == 2
\* Explicit screen_size arguments are None or 1..MaxScreen.
MaxScreen == 6
\* Fixed integer seeds are 1..MaxSeed.
MaxSeed == 1
\* rand_symmetrized is called directly with npix in 1..MaxSymNpix.
MaxSymNpix == 5

Threads == {1, 2}
\* wave.oversample of the wavefronts handed to get_opd
Oversamples == {2, 4}
\* seeds the operating system's entropy may give a RandomState seeded with None
Entropy == {8, 9}

(* --------------------------- Python values ------------------------------ *)

\* Python's None for an optional number (every real value is >= 0)
None == -1

NoArray == [n |-> 0, v |-> <<>>, vi |-> <<>>, q |-> <<0, 1>>, filt |-> "none"]

NoObject == [cls |-> "none"]

NoWave == [shape |-> 0, ispadded |-> FALSE, oversample |-> 0]

\* the method a thread is running, its arguments, and the object as the call
\* found it
NoCall == [m |-> "none", wave |-> NoWave, wavelength |-> None, npix |-> None, sign |-> 0,
           obj |-> NoObject]

\* a returned quantity: Python's None, a Cn2 given to the constructor, or the
\* Cn2 derived from r0: wavelength^2/dz * (r0/0.185)^(-5/3), kept as its operands
NoVal == [form |-> "none", wavelength |-> None, dz |-> None, r0 |-> None, Cn2 |-> None]

NoRet == [kind |-> "none", arr |-> NoArray, exc |-> "none", val |-> NoVal]

RetArray(a) == [kind |-> "array", arr |-> a, exc |-> "none", val |-> NoVal]

Raise(e) == [kind |-> "raise", arr |-> NoArray, exc |-> e, val |-> NoVal]

RetValue(x) == [kind |-> "value", arr |-> NoArray, exc |-> "none", val |-> x]

EmptyLoc == [wave_size |-> None, kshape |-> None, psd |-> None,
             noise |-> NoArray, opd |-> NoArray, ffts |-> 0,
             a |-> NoArray, phi |-> "none"]

(* ------------------------------ rationals ------------------------------- *)

RECURSIVE Gcd(_, _)
Gcd(a, b) == IF b = 0 THEN a ELSE Gcd(b, a % b)

\* a fraction in lowest terms; <<0, 0>> stands for nan/inf
Frac(n, d) == IF d = 0 THEN <<0, 0>>
              ELSE LET g == Gcd(n, d) IN IF g = 0 THEN <<0, 1>> ELSE <<n \div g, d \div g>>

FMul(x, y) == IF x[2] = 0 \/ y[2] = 0 THEN <<0, 0>> ELSE Frac(x[1] * y[1], x[2] * y[2])

FDiv(x, y) == IF x[2] = 0 \/ y[2] = 0 \/ y[1] = 0 THEN <<0, 0>> ELSE Frac(x[1] * y[2], x[2] * y[1])

(* -------------------------------- arrays -------------------------------- *)

\* arrays are indexed from 1 in the model: element (i, j) of numpy is m[i+1][j+1]
At(m, i, j) == m[i + 1][j + 1]

RECURSIVE SumTo(_, _)
SumTo(f, n) == IF n = 0 THEN 0 ELSE f[n] + SumTo(f, n - 1)

(* ------------------- collaborators outside wfe.py ----------------------- *)

\* poppy_core.Wavefront as get_opd reads it: shape[0], ispadded, oversample
\* (pixelscale is 1 m/pix and wavelength 1 m on every wavefront of the model)
Wave(shape, ispadded, oversample) ==
    [shape |-> shape, ispadded |-> ispadded, oversample |-> oversample]

\* a pupil wavefront of npix pixels, before and after it is padded by oversample
\* (get_opd reads the oversample of a padded wavefront only)
Waves == {Wave(n, FALSE, 2) : n \in 2..MaxNpix}
         \cup {Wave(n * o, TRUE, o) : n \in 2..MaxNpix, o \in Oversamples}

\* a get_opd argument that is no BaseWavefront: a float (a wavelength)
NotAWavefront == [shape |-> None, ispadded |-> FALSE, oversample |-> None]

\* isinstance(w, BaseWavefront)
IsWavefront(w) == w.shape # None

\* optics.CircularAperture(radius).get_transmission(wave) at pixel (i, j):
\* 1 inside the radius, 0 outside; pixel centres lie at i - (shape-1)/2
Transmits(shape, radius, i, j) ==
    (2 * i - (shape - 1)) * (2 * i - (shape - 1))
    + (2 * j - (shape - 1)) * (2 * j - (shape - 1)) <= 4 * radius * radius

\* utils.pad_or_crop_to_shape(array, (shape, shape)): the central shape x shape
\* part of a larger array, a smaller array centred in zeros
PadOrCrop(arr, shape) ==
    LET b == (IF arr.n > shape THEN arr.n - shape ELSE shape - arr.n) \div 2
        Cell(i, j) ==
            IF arr.n > shape THEN At(arr.v, i + b, j + b)
            ELSE IF i >= b /\ i < b + arr.n /\ j >= b /\ j < b + arr.n
                 THEN At(arr.v, i - b, j - b)
                 ELSE 0
    IN  IF arr.n = shape THEN arr
        ELSE [arr EXCEPT !.n = shape, !.v = [r \in 1..shape |-> [c \in 1..shape |-> Cell(r - 1, c - 1)]]]

\* numpy.random.RandomState seeded with seed: its k-th normal() sample
Normal(seed, k) == 1 + ((k * 37 + seed * 11) % 101)

\* RandomState().seed(seed): None takes the seed from the system's entropy e
Seeded(seed, e) == IF seed = None THEN e ELSE seed

\* RandomState.normal(size=(n, n)): the stream fills the array row by row
NormalArray(seed, n) ==
    [n |-> n, v |-> [r \in 1..n |-> [c \in 1..n |-> Normal(seed, (r - 1) * n + (c - 1))]],
     vi |-> <<>>,
     q |-> <<1, 1>>, filt |-> "flat"]

\* the sum of squares of the samples of arr where the aperture transmits, and
\* the number of such pixels
ApertureCells(arr, radius) ==
    [k \in 1..(arr.n * arr.n) |->
        LET i == (k - 1) \div arr.n
            j == (k - 1) % arr.n
        IN  IF Transmits(arr.n, radius, i, j)
            THEN <<At(arr.v, i, j) * At(arr.v, i, j), 1>> ELSE <<0, 0>>]

ApertureSumSq(arr, radius) ==
    LET c == ApertureCells(arr, radius)
    IN  SumTo([k \in DOMAIN c |-> c[k][1]], arr.n * arr.n)

ApertureCount(arr, radius) ==
    LET c == ApertureCells(arr, radius)
    IN  SumTo([k \in DOMAIN c |-> c[k][2]], arr.n * arr.n)

\* the mean square of the array's values over the aperture of that radius
MeanSquare(arr, radius) ==
    FMul(arr.q, Frac(ApertureSumSq(arr, radius), ApertureCount(arr, radius)))

(* --------------------------- PowerSpectrumWFE --------------------------- *)

\* one PSD term [alpha, beta, outer_scale, inner_scale, surf_roughness]: the
\* values, and the units of beta and surf_roughness as powers of the metre.
\* The terms made here have consistent units: m^(4-alpha) and m^4.
PsdTerm(alpha, outer_scale, inner_scale, surf_roughness) ==
    [alpha |-> alpha, beta |-> 0, outer_scale |-> outer_scale,
     inner_scale |-> inner_scale, surf_roughness |-> surf_roughness,
     beta_unit |-> 4 - alpha, surf_unit |-> 4]

\* the term with its surface roughness given in m^e
InUnit(term, e) == [term EXCEPT !.surf_unit = e]

\* the psd_parameters / psd_weight arguments given to the constructor
PsdArgs == {
    [psd_parameters |-> <<PsdTerm(2, 0, 0, 1)>>, psd_weight |-> <<>>],
    [psd_parameters |-> <<PsdTerm(2, 0, 0, 1), PsdTerm(3, 5, 1, 2)>>,
     psd_weight |-> <<2, 1>>] }

\* psd_parameters with a surface roughness in m^2 where m^4 is due: in the
\* only term, in the second of two weighted terms, and in a second term that
\* psd_weight has no weight for
PsdArgsUnits == {
    [psd_parameters |-> <<PsdTerm(2, 0, 0, 1)>>, psd_weight |-> <<>>],
    [psd_parameters |-> <<InUnit(PsdTerm(2, 0, 0, 1), 2)>>, psd_weight |-> <<>>],
    [psd_parameters |-> <<PsdTerm(2, 0, 0, 1), InUnit(PsdTerm(3, 5, 1, 2), 2)>>,
     psd_weight |-> <<2, 1>>],
    [psd_parameters |-> <<PsdTerm(2, 0, 0, 1), InUnit(PsdTerm(3, 5, 1, 2), 2)>>,
     psd_weight |-> <<1>>] }

\* the constructor's arguments (a radius is given when an rms is, or to
\* show that an rms without one is refused)
PSArgs ==
    {a \in [psd : PsdArgs, seed : {None} \cup 1..MaxSeed, apply_reflection : BOOLEAN,
            screen_size : {None} \cup 1..MaxScreen, rms : {None, 3},
            incident_angle : {0, 60, 90}, radius : {None, 1}] :
        a.radius # None => a.rms # None}

\* the outcome of a constructor: the object, or the exception raised
Built(obj) == [exc |-> "none", obj |-> obj]

Failed(e) == [exc |-> e, obj |-> NoObject]

\* PowerSpectrumWFE.__init__
PSInit(args) ==
    IF args.rms # None /\ args.radius = None THEN Failed("ValueError")
    ELSE IF args.incident_angle >= 90 THEN Failed("ValueError")
    ELSE Built(
        [cls |-> "PowerSpectrumWFE",
         psd_parameters |-> args.psd.psd_parameters,
         seed |-> args.seed,
         apply_reflection |-> args.apply_reflection,
         screen_size |-> args.screen_size,
         rms |-> args.rms,
         radius |-> args.radius,
         incident_angle |-> args.incident_angle,
         psd_weight |-> IF args.psd.psd_weight = <<>>
                        THEN [n \in 1..Len(args.psd.psd_parameters) |-> 1]
                        ELSE args.psd.psd_weight,
         opd |-> NoArray])

\* the outcome of one step of a method: where the call goes on, the object,
\* the call's locals and what it has returned or raised
StepTo(p, obj, l) == [pc |-> p, self |-> obj, loc |-> l, ret |-> NoRet]

StepRaise(e, obj, l) == [pc |-> "raised", self |-> obj, loc |-> l, ret |-> Raise(e)]

StepReturn(a, obj, l) == [pc |-> "done", self |-> obj, loc |-> l, ret |-> RetArray(a)]

\* lines 487-492: the unpadded wavefront size and the test for a missing screen_size
PS_Entry(obj, w, l) ==
    LET wave_size == IF w.ispadded THEN w.shape \div w.oversample ELSE w.shape
    IN  StepTo(IF obj.screen_size = None THEN "ps_default" ELSE "ps_check",
               obj, [l EXCEPT !.wave_size = wave_size])

\* line 493: self.screen_size = wave.shape[0]
PS_Default(obj, w, l) ==
    StepTo(IF w.ispadded THEN "ps_psd" ELSE "ps_times4",
           [obj EXCEPT !.screen_size = w.shape], l)

\* line 496: self.screen_size = self.screen_size * 4
PS_Times4(obj, w, l) ==
    StepTo("ps_psd", [obj EXCEPT !.screen_size = obj.screen_size * 4], l)

\* the size check with <= for <: a screen as large as the wavefront is refused
PS_Check_Inclusive(obj, w, l) ==
    IF obj.screen_size <= l.wave_size THEN StepRaise("Exception", obj, l)
    ELSE StepTo("ps_psd", obj, l)

\* lines 498-499: the size check
PS_Check(obj, w, l) ==
    IF obj.screen_size < l.wave_size THEN StepRaise("Exception", obj, l)
    ELSE StepTo("ps_psd", obj, l)

\* lines 526-546: one term's PSD; with beta.value = 0 both branches of line
\* 530 give 0 everywhere on the grid, plus the surface roughness
PsdInterm(term) == term.beta + term.surf_roughness

\* lines 512-549: the weighted sum of the terms
TotalPsd(obj) ==
    SumTo([n \in 1..Len(obj.psd_weight) |->
              obj.psd_weight[n] * PsdInterm(obj.psd_parameters[n])],
          Len(obj.psd_weight))

\* lines 522-523: with dk in 1/m, psd_units = beta.unit / ((1/m)^2)^(alpha/2)
\* is m^(beta_unit + alpha); the assert compares surf_roughness.unit with it
UnitsConsistent(term) == term.surf_unit = term.beta_unit + term.alpha

\* lines 513-523: the loop over range(len(psd_weight)) from term n on: the
\* exception that ends it, or "none"
RECURSIVE PsdLoop(_, _)
PsdLoop(obj, n) ==
    IF n > Len(obj.psd_weight) THEN "none"
    ELSE IF n > Len(obj.psd_parameters) THEN "IndexError"
    ELSE IF ~UnitsConsistent(obj.psd_parameters[n]) THEN "AssertionError"
    ELSE PsdLoop(obj, n + 1)

\* lines 502-549: the frequency grid, 2*cen samples a side, and the PSD on it
PS_Psd(obj, w, l) ==
    LET cen == obj.screen_size \div 2
        exc == PsdLoop(obj, 1)
    IN  IF exc # "none" THEN StepRaise(exc, obj, [l EXCEPT !.kshape = 2 * cen])
        ELSE StepTo("ps_noise", obj, [l EXCEPT !.kshape = 2 * cen, !.psd = TotalPsd(obj)])

\* lines 552-554: a RandomState seeded with self.seed, one screen_size x
\* screen_size draw and its forward FFT
PS_Noise(obj, w, l, e) ==
    StepTo("ps_synth", obj,
           [l EXCEPT !.noise = NormalArray(Seeded(obj.seed, e), obj.screen_size),
                     !.ffts = l.ffts + 1])

\* line 524: surf_unit = (psd_units * dk.unit^2)^0.5 of the last term of the
\* loop, as a power of the metre times two
SurfUnit2(obj) ==
    LET term == obj.psd_parameters[Len(obj.psd_weight)]
    IN  term.beta_unit + term.alpha - 2

\* lines 556-557: sqrt(psd / pixelscale^2) * rndm_noise, which numpy refuses
\* when the two shapes differ, the inverse FFT and the conversion to metres
PS_Synth(obj, w, l) ==
    IF l.kshape # l.noise.n THEN StepRaise("ValueError", obj, l)
    ELSE IF SurfUnit2(obj) # 2 THEN StepRaise("UnitConversionError", obj, l)
    ELSE StepTo("ps_calibrate", obj,
                [l EXCEPT !.opd = [l.noise EXCEPT !.q = Frac(l.psd, 1)],
                          !.ffts = l.ffts + 1])

\* the rms measured over every pixel of the wavefront grid instead of the aperture
RmsNormalize_NoAperture(opd, obj, w) ==
    IF obj.rms = None THEN opd
    ELSE LET opd_crop == PadOrCrop(opd, w.shape)
             rms_measure2 == MeanSquare(opd_crop, w.shape)
         IN  [opd EXCEPT !.q = FDiv(FMul(opd.q, <<obj.rms * obj.rms, 1>>), rms_measure2)]

\* lines 560-566: scale the whole screen to the rms measured in the aperture
RmsNormalize(opd, obj, w) ==
    IF obj.rms = None THEN opd
    ELSE LET opd_crop == PadOrCrop(opd, w.shape)
             rms_measure2 == MeanSquare(opd_crop, obj.radius)
         IN  [opd EXCEPT !.q = FDiv(FMul(opd.q, <<obj.rms * obj.rms, 1>>), rms_measure2)]

\* cos(incident_angle)^2
Cos2(deg) == CASE deg = 0 -> <<1, 1>> [] deg = 60 -> <<1, 4>> [] OTHER -> <<0, 1>>

\* lines 569-570: opd /= cos(incident_angle)
AngleAdjust(opd, obj) ==
    IF obj.incident_angle # 0
    THEN [opd EXCEPT !.q = FDiv(opd.q, Cos2(obj.incident_angle))]
    ELSE opd

\* the power of the screen doubled instead of its amplitude
Reflection_Power(opd, obj) ==
    IF obj.apply_reflection THEN [opd EXCEPT !.q = FMul(opd.q, <<2, 1>>)] ELSE opd

\* lines 573-574: opd *= 2
Reflection(opd, obj) ==
    IF obj.apply_reflection THEN [opd EXCEPT !.q = FMul(opd.q, <<4, 1>>)] ELSE opd

\* lines 560-574
PS_Calibrate(obj, w, l) ==
    StepTo("ps_crop", obj,
           [l EXCEPT !.opd = Reflection(AngleAdjust(RmsNormalize(l.opd, obj, w), obj), obj)])

\* lines 577-578: crop to the wavefront when the screen is larger
PS_Crop(obj, w, l) ==
    StepTo("ps_store", obj,
           [l EXCEPT !.opd = IF obj.screen_size > w.shape
                             THEN PadOrCrop(l.opd, w.shape) ELSE l.opd])

\* line 580: self.opd = opd
PS_Store(obj, w, l) == StepTo("ps_return", [obj EXCEPT !.opd = l.opd], l)

\* line 581: return self.opd
PS_Return(obj, w, l) == StepReturn(obj.opd, obj, l)


(* --------------------------- StatisticalPSDWFE -------------------------- *)

StatArgs == [index : {3}, wfe : {5}, radius : {1}, seed : {None} \cup 1..MaxSeed]

\* StatisticalPSDWFE.__init__
StatInit(args) ==
    Built([cls |-> "StatisticalPSDWFE", index |-> args.index, wfe |-> args.wfe,
           radius |-> args.radius, seed |-> args.seed, opd |-> NoArray])

\* lines 344-355: the power-law filtered, zero-mean screen on the wavefront's grid
Stat_Screen(obj, w, l, e) ==
    StepTo("stat_store", obj,
           [l EXCEPT !.noise = NormalArray(Seeded(obj.seed, e), w.shape),
                     !.ffts = 2])

\* line 356: self.opd = phase_screen / std * wfe
Stat_Store(obj, w, l) ==
    StepTo("stat_return",
           [obj EXCEPT !.opd = [l.noise EXCEPT !.q = <<obj.wfe * obj.wfe, 1>>,
                                               !.filt = "powerlaw"]], l)

\* line 358: return self.opd
Stat_Return(obj, w, l) == StepReturn(obj.opd, obj, l)

(* ----------------------------- KolmogorovWFE ---------------------------- *)

Kinds == {"Kolmogorov", "Tatarski", "von Karman", "Hill", "Gaussian"}

KArgs ==
    [r0 : {None, 2}, Cn2 : {None, 3}, dz : {None, 5}, inner_scale : {None, 1},
     outer_scale : {None, 7}, kind : Kinds, seed : {None} \cup 1..MaxSeed]

\* KolmogorovWFE.__init__: line 633 raises; line 641 calls dz.to on None
KInit(args) ==
    IF args.dz = None /\ ~(args.r0 # None /\ args.Cn2 # None)
    THEN Failed("ValueError: dz and either Cn2 or r0 must be given")
    ELSE IF args.dz = None THEN Failed("AttributeError")
    ELSE Built([cls |-> "KolmogorovWFE", r0 |-> args.r0, Cn2 |-> args.Cn2,
                seed |-> args.seed, dz |-> args.dz,
                inner_scale |-> args.inner_scale,
                outer_scale |-> args.outer_scale, kind |-> args.kind,
                opd |-> NoArray])

\* get_Cn2 with its two branches in the other order: a supplied Cn2 wins over r0
get_Cn2_SuppliedFirst(obj, wavelength) ==
    IF obj.Cn2 # None
    THEN [form |-> "Cn2", wavelength |-> None, dz |-> None, r0 |-> None,
          Cn2 |-> obj.Cn2]
    ELSE IF obj.r0 # None /\ obj.dz # None
    THEN [form |-> "derived", wavelength |-> wavelength, dz |-> obj.dz,
          r0 |-> obj.r0, Cn2 |-> None]
    ELSE [form |-> "None", wavelength |-> None, dz |-> None, r0 |-> None,
          Cn2 |-> None]

\* KolmogorovWFE.get_Cn2 (quantities are in metres, so .to(u.m) keeps the value)
get_Cn2(obj, wavelength) ==
    IF obj.r0 # None /\ obj.dz # None
    THEN [form |-> "derived", wavelength |-> wavelength, dz |-> obj.dz,
          r0 |-> obj.r0, Cn2 |-> None]
    ELSE IF obj.Cn2 # None
    THEN [form |-> "Cn2", wavelength |-> None, dz |-> None, r0 |-> None,
          Cn2 |-> obj.Cn2]
    ELSE [form |-> "None", wavelength |-> None, dz |-> None, r0 |-> None,
          Cn2 |-> None]

\* numpy's rule for a[target] = source along one axis: equal lengths, or a
\* source of length 1 that is repeated
Broadcasts(src, dst) == src = dst \/ src = 1

\* KolmogorovWFE.rand_symmetrized, lines 737-750, from a RandomState seeded
\* with seed.  h = int(npix/2); the mirrored slices h+1:npix have T elements
\* and the slices 1:h they are copied from have L.
rand_symmetrized(npix, sign, seed) ==
    LET h == npix \div 2
        T == npix - h - 1
        L == IF h >= 1 THEN h - 1 ELSE 0
        a0 == NormalArray(seed, npix).v
        \* line 742: a[0, h+1:npix] = sign*a[0, 1:h][::-1]
        a1 == [r \in 1..npix |-> [c \in 1..npix |->
                  LET i == r - 1  j == c - 1 IN
                  IF i = 0 /\ j >= h + 1 THEN sign * At(a0, 0, h - 1 - (j - h - 1))
                  ELSE At(a0, i, j)]]
        \* line 743: a[h+1:npix, 0] = sign*a[1:h, 0][::-1]
        a2 == [r \in 1..npix |-> [c \in 1..npix |->
                  LET i == r - 1  j == c - 1 IN
                  IF j = 0 /\ i >= h + 1 THEN sign * At(a1, h - 1 - (i - h - 1), 0)
                  ELSE At(a1, i, j)]]
        \* line 744: a[h+1:npix, h+1:npix] = sign*rot90(a[1:h, 1:h], 2)
        a3 == [r \in 1..npix |-> [c \in 1..npix |->
                  LET i == r - 1  j == c - 1 IN
                  IF i >= h + 1 /\ j >= h + 1
                  THEN sign * At(a2, h - 1 - (i - h - 1), h - 1 - (j - h - 1))
                  ELSE At(a2, i, j)]]
        \* line 745: a[h+1:npix, 1:h] = sign*rot90(a[1:h, h+1:npix], 2)
        a4 == [r \in 1..npix |-> [c \in 1..npix |->
                  LET i == r - 1  j == c - 1 IN
                  IF i >= h + 1 /\ j >= 1 /\ j < h
                  THEN sign * At(a3, h - 1 - (i - h - 1), npix - 1 - (j - 1))
                  ELSE At(a3, i, j)]]
        \* line 748: a[0, 0] = 0.0
        a5 == [r \in 1..npix |-> [c \in 1..npix |->
                  LET i == r - 1  j == c - 1 IN
                  IF i = 0 /\ j = 0 THEN 0 ELSE At(a4, i, j)]]
    IN  IF sign # 1 /\ sign # -1 THEN Raise("ValueError: sign must be either +1 or -1")
        ELSE IF ~Broadcasts(L, T) THEN Raise("ValueError: could not broadcast")
        ELSE IF ~(Broadcasts(L, T) /\ Broadcasts(T, L)) THEN Raise("ValueError: could not broadcast")
        ELSE RetArray([n |-> npix, v |-> a5, vi |-> <<>>, q |-> <<1, 1>>, filt |-> "flat"])

\* KolmogorovWFE.rand_turbulent: c = (a + 1j*b)/sqrt(2), each of a and b from
\* its own RandomState
rand_turbulent(npix, seed_a, seed_b) ==
    LET a == rand_symmetrized(npix, 1, seed_a)
        b == rand_symmetrized(npix, -1, seed_b)
    IN  IF a.kind = "raise" THEN a
        ELSE IF b.kind = "raise" THEN b
        ELSE RetArray([n |-> npix, v |-> a.arr.v, vi |-> b.arr.v, q |-> <<1, 2>>,
                       filt |-> "flat"])

\* KolmogorovWFE.power_spectrum: the exception it raises, or the name of the
\* spectrum it returns
power_spectrum(obj, kind) ==
    IF kind \notin {"Kolmogorov", "Tatarski", "von Karman", "Hill"}
    THEN "ValueError: Kind of power spectrum not correctly defined"
    ELSE IF kind = "von Karman" /\ obj.outer_scale = None
    THEN "ValueError: the outer scale L_0 must be provided"
    ELSE IF get_Cn2(obj, 1).form = "None"
    THEN "TypeError"
    ELSE IF kind \in {"Tatarski", "von Karman", "Hill"} /\ obj.inner_scale = None
    THEN "ValueError: the inner scale l_0 must be provided"
    ELSE kind

IsError(x) == x \notin Kinds

\* lines 671-676: npix = wave.shape[0], which a float has not, and
\* a = self.rand_turbulent(npix)
K_Rand(obj, w, l, e1, e2) ==
    LET c == rand_turbulent(w.shape, Seeded(obj.seed, e1), Seeded(obj.seed, e2))
    IN  IF ~IsWavefront(w) THEN StepRaise("AttributeError", obj, l)
        ELSE IF c.kind = "raise" THEN StepRaise(c.exc, obj, l)
        ELSE StepTo("k_spectrum", obj, [l EXCEPT !.a = c.arr])

\* line 679: phi = self.power_spectrum(wave=wave, kind=self.kind)
K_Spectrum(obj, w, l) ==
    LET phi == power_spectrum(obj, obj.kind)
    IN  IF IsError(phi) THEN StepRaise(phi, obj, l)
        ELSE StepTo("k_store", obj, [l EXCEPT !.phi = phi])

\* lines 683-686: self.opd = (npix**2 * ifft2(dq*a*sqrt(2 pi dz phi))).real.value
K_Store(obj, w, l) ==
    StepTo("k_return", [obj EXCEPT !.opd = [l.a EXCEPT !.filt = l.phi]],
           [l EXCEPT !.ffts = 1])

\* line 688: return self.opd
K_Return(obj, w, l) == StepReturn(obj.opd, obj, l)


(* ------------------- the basis-expansion error sources ------------------ *)

\* the term arrays a basis_factory returns, and zernike.zernike1 /
\* cached_zernike1 with outside=0.0: term k at pixel (i, j) is 0 where rho > 1
BasisTerm(k, shape, radius, i, j) ==
    IF Transmits(shape, radius, i, j) THEN k * (i + 1) + j ELSE 0

\* a basis_factory argument: None (not callable), or a callable that returns
\* nterms + extra term arrays
NotCallable == [callable |-> FALSE, extra |-> 0]

BasisFactory(extra) == [callable |-> TRUE, extra |-> extra]

\* coefficient lists, in metres
Coefficients == {<<2>>, <<0, 3>>, <<2, 0>>, <<2, 3>>}

ParamArgs ==
    [coefficients : Coefficients, radius : {0, 1, 2},
     basis_factory : {NotCallable, BasisFactory(-1), BasisFactory(0), BasisFactory(1)}]

\* ParameterizedWFE.__init__, lines 145-154.  collections.Callable exists up
\* to Python 3.9 (has_Callable); later the test of line 147 itself fails.
ParamInit(args, has_Callable) ==
    IF ~has_Callable THEN Failed("AttributeError")
    ELSE IF ~args.basis_factory.callable
    THEN Failed("ValueError: 'basis_factory' must be a callable")
    ELSE Built([cls |-> "ParameterizedWFE", radius |-> args.radius,
                coefficients |-> args.coefficients,
                basis_factory |-> args.basis_factory])

\* an n x n array of zeros, and array + c * the k-th term
Zeros(n) == [r \in 1..n |-> [c \in 1..n |-> 0]]

AddTerm(acc, coefficient, k, shape, radius) ==
    [r \in 1..shape |-> [c \in 1..shape |->
        acc[r][c] + coefficient * BasisTerm(k, shape, radius, r - 1, c - 1)]]

\* the loop of lines 166-170 without the continue of lines 167-168
RECURSIVE ParamLoop_NoSkip(_, _, _, _, _)
ParamLoop_NoSkip(obj, w, nreturned, idx, acc) ==
    IF idx > Len(obj.coefficients) THEN [exc |-> "none", v |-> acc]
    ELSE IF idx > nreturned THEN [exc |-> "IndexError", v |-> acc]
    ELSE ParamLoop_NoSkip(obj, w, nreturned, idx + 1,
                          AddTerm(acc, obj.coefficients[idx], idx, w.shape, obj.radius))

\* lines 166-170: the loop over the coefficients from index idx on (1-based),
\* computed_terms holding nreturned arrays
RECURSIVE ParamLoop(_, _, _, _, _)
ParamLoop(obj, w, nreturned, idx, acc) ==
    IF idx > Len(obj.coefficients) THEN [exc |-> "none", v |-> acc]
    ELSE IF obj.coefficients[idx] = 0 THEN ParamLoop(obj, w, nreturned, idx + 1, acc)
    ELSE IF idx > nreturned THEN [exc |-> "IndexError", v |-> acc]
    ELSE ParamLoop(obj, w, nreturned, idx + 1,
                   AddTerm(acc, obj.coefficients[idx], idx, w.shape, obj.radius))

BasisArray(n, v) == [n |-> n, v |-> v, vi |-> <<>>, q |-> <<1, 1>>, filt |-> "flat"]

\* ParameterizedWFE.get_opd, lines 158-171
Param_get_opd(obj, w, l) ==
    LET nterms == Len(obj.coefficients)
        nreturned == nterms + obj.basis_factory.extra
        r == ParamLoop(obj, w, nreturned, 1, Zeros(w.shape))
    IN  IF r.exc # "none" THEN StepRaise(r.exc, obj, l)
        ELSE StepReturn(BasisArray(w.shape, r.v), obj, l)

ZernikeArgs == [coefficients : Coefficients, radius : {None, 1, 2}, aperture_stop : BOOLEAN]

\* ZernikeWFE.__init__, lines 192-204
ZernikeInit(args) ==
    IF args.radius = None THEN Failed("ValueError: You must specify a radius")
    ELSE Built([cls |-> "ZernikeWFE", radius |-> args.radius,
                aperture_stop |-> args.aperture_stop,
                coefficients |-> args.coefficients])

\* lines 231-251: the sum of k * zernike_j over the coefficients up to index j
RECURSIVE ZernikeSum(_, _, _)
ZernikeSum(obj, w, j) ==
    IF j = 0 THEN Zeros(w.shape)
    ELSE AddTerm(ZernikeSum(obj, w, j - 1), obj.coefficients[j], j, w.shape, obj.radius)

\* ZernikeWFE.get_opd, lines 219-254: the sum, set to 0 where the aperture
\* does not transmit
Zernike_get_opd(obj, w, l) ==
    LET combined_zernikes == ZernikeSum(obj, w, Len(obj.coefficients))
        masked == [r \in 1..w.shape |-> [c \in 1..w.shape |->
                      IF Transmits(w.shape, obj.radius, r - 1, c - 1)
                      THEN combined_zernikes[r][c] ELSE 0]]
    IN  StepReturn(BasisArray(w.shape, masked), obj, l)

SineArgs == [spatialfreq : {1, 2}, amplitude : {1, 3}, phaseoffset : {0, 1}]

\* SineWaveWFE.__init__, lines 280-286
SineInit(args) ==
    Built([cls |-> "SineWaveWFE", sine_spatial_freq |-> args.spatialfreq,
           sine_phase_offset |-> args.phaseoffset, sine_amplitude |-> args.amplitude])

\* SineWaveWFE.get_opd, lines 299-304: amplitude * sin(2 pi (x f + phase)),
\* kept as its amplitude and the parameters of the sine
Sine_get_opd(obj, w, l) ==
    StepReturn([n |-> w.shape,
                v |-> <<obj.sine_spatial_freq, obj.sine_phase_offset>>, vi |-> <<>>,
                q |-> <<obj.sine_amplitude * obj.sine_amplitude, 1>>, filt |-> "sine"],
               obj, l)

\* WavefrontError.__init__, lines 53-58
WavefrontErrorInit(args) == Built([cls |-> "WavefrontError"])

\* WavefrontError.get_opd, line 71
WavefrontError_get_opd(obj, w, l) == StepRaise("NotImplementedError", obj, l)

(* ------------------------------ the program ----------------------------- *)

NoCtor == [cls |-> "none", exc |-> "none"]

Init ==
    /\ self = NoObject
    /\ constructed = NoObject
    /\ ctor = NoCtor
    /\ pc = [t \in Threads |-> "idle"]
    /\ call = [t \in Threads |-> NoCall]
    /\ loc = [t \in Threads |-> EmptyLoc]
    /\ ret = [t \in Threads |-> NoRet]

\* a constructor call with its outcome r
Construct(cls, args, r) ==
    /\ ctor.cls = "none"
    /\ ctor' = [cls |-> cls, exc |-> r.exc, args |-> args]
    /\ self' = r.obj
    /\ constructed' = r.obj
    /\ UNCHANGED <<pc, call, loc, ret>>

NewPowerSpectrumWFE(args) == Construct("PowerSpectrumWFE", args, PSInit(args))

NewStatisticalPSDWFE(args) == Construct("StatisticalPSDWFE", args, StatInit(args))

NewKolmogorovWFE(args) == Construct("KolmogorovWFE", args, KInit(args))

NewParameterizedWFE(args, has_Callable) ==
    Construct("ParameterizedWFE", args, ParamInit(args, has_Callable))

NewZernikeWFE(args) == Construct("ZernikeWFE", args, ZernikeInit(args))

NewSineWaveWFE(args) == Construct("SineWaveWFE", args, SineInit(args))

NewWavefrontError == Construct("WavefrontError", <<>>, WavefrontErrorInit(<<>>))

\* where get_opd of each class starts
EntryOf(cls) ==
    CASE cls = "PowerSpectrumWFE" -> "ps_entry"
      [] cls = "StatisticalPSDWFE" -> "stat_screen"
      [] cls = "KolmogorovWFE" -> "k_rand"
      [] cls = "ParameterizedWFE" -> "param_opd"
      [] cls = "ZernikeWFE" -> "zernike_opd"
      [] cls = "SineWaveWFE" -> "sine_opd"
      [] cls = "WavefrontError" -> "wfe_opd"

\* the classes whose get_opd is wrapped by _check_wavefront_arg (lines 60,
\* 156, 206, 288, 334, 475; not line 646)
Decorated(cls) == cls # "KolmogorovWFE"

ArgError == "ValueError: The first argument must be a Wavefront or FresnelWavefront object."

\* _check_wavefront_arg's wrapper, lines 37-41: TRUE when it raises
check_wavefront_arg(cls, w) == Decorated(cls) /\ ~IsWavefront(w)

\* thread t calls self.get_opd(w)
Call_get_opd(t, w) ==
    /\ self.cls # "none"
    /\ pc[t] = "idle"
    /\ call' = [call EXCEPT ![t] = [NoCall EXCEPT !.m = "get_opd", !.wave = w, !.obj = self]]
    /\ IF check_wavefront_arg(self.cls, w)
       THEN /\ pc' = [pc EXCEPT ![t] = "raised"]
            /\ ret' = [ret EXCEPT ![t] = Raise(ArgError)]
       ELSE /\ pc' = [pc EXCEPT ![t] = EntryOf(self.cls)]
            /\ UNCHANGED ret
    /\ UNCHANGED <<self, constructed, ctor, loc>>

\* thread t calls self.get_Cn2(wavelength)
Call_get_Cn2(t, wavelength) ==
    /\ self.cls = "KolmogorovWFE"
    /\ pc[t] = "idle"
    /\ pc' = [pc EXCEPT ![t] = "done"]
    /\ call' = [call EXCEPT ![t] = [NoCall EXCEPT !.m = "get_Cn2", !.wavelength = wavelength]]
    /\ ret' = [ret EXCEPT ![t] = RetValue(get_Cn2(self, wavelength))]
    /\ UNCHANGED <<self, constructed, ctor, loc>>

\* thread t calls self.rand_symmetrized(npix, sign)
Call_rand_symmetrized(t, npix, sign, e) ==
    /\ self.cls = "KolmogorovWFE"
    /\ pc[t] = "idle"
    /\ LET r == rand_symmetrized(npix, sign, Seeded(self.seed, e))
       IN  /\ pc' = [pc EXCEPT ![t] = IF r.kind = "raise" THEN "raised" ELSE "done"]
           /\ ret' = [ret EXCEPT ![t] = r]
    /\ call' = [call EXCEPT ![t] = [NoCall EXCEPT !.m = "rand_symmetrized",
                                               !.npix = npix, !.sign = sign]]
    /\ UNCHANGED <<self, constructed, ctor, loc>>

\* thread t takes the step whose outcome is r
Apply(t, r) ==
    /\ pc' = [pc EXCEPT ![t] = r.pc]
    /\ self' = r.self
    /\ loc' = [loc EXCEPT ![t] = r.loc]
    /\ ret' = [ret EXCEPT ![t] = r.ret]
    /\ UNCHANGED <<constructed, ctor, call>>

PS_EntryStep(t) == pc[t] = "ps_entry" /\ Apply(t, PS_Entry(self, call[t].wave, loc[t]))

PS_DefaultStep(t) == pc[t] = "ps_default" /\ Apply(t, PS_Default(self, call[t].wave, loc[t]))

PS_Times4Step(t) == pc[t] = "ps_times4" /\ Apply(t, PS_Times4(self, call[t].wave, loc[t]))

PS_CheckStep(t) == pc[t] = "ps_check" /\ Apply(t, PS_Check(self, call[t].wave, loc[t]))

PS_PsdStep(t) == pc[t] = "ps_psd" /\ Apply(t, PS_Psd(self, call[t].wave, loc[t]))

PS_NoiseStep(t) ==
    /\ pc[t] = "ps_noise"
    /\ \E e \in (IF self.seed = None THEN Entropy ELSE {self.seed}) :
          Apply(t, PS_Noise(self, call[t].wave, loc[t], e))

PS_SynthStep(t) == pc[t] = "ps_synth" /\ Apply(t, PS_Synth(self, call[t].wave, loc[t]))

PS_CalibrateStep(t) ==
    pc[t] = "ps_calibrate" /\ Apply(t, PS_Calibrate(self, call[t].wave, loc[t]))

PS_CropStep(t) == pc[t] = "ps_crop" /\ Apply(t, PS_Crop(self, call[t].wave, loc[t]))

PS_StoreStep(t) == pc[t] = "ps_store" /\ Apply(t, PS_Store(self, call[t].wave, loc[t]))

PS_ReturnStep(t) == pc[t] = "ps_return" /\ Apply(t, PS_Return(self, call[t].wave, loc[t]))

Stat_ScreenStep(t) ==
    /\ pc[t] = "stat_screen"
    /\ \E e \in (IF self.seed = None THEN Entropy ELSE {self.seed}) :
          Apply(t, Stat_Screen(self, call[t].wave, loc[t], e))

Stat_StoreStep(t) == pc[t] = "stat_store" /\ Apply(t, Stat_Store(self, call[t].wave, loc[t]))

Stat_ReturnStep(t) == pc[t] = "stat_return" /\ Apply(t, Stat_Return(self, call[t].wave, loc[t]))

K_RandStep(t) ==
    /\ pc[t] = "k_rand"
    /\ \E e1, e2 \in (IF self.seed = None THEN Entropy ELSE {self.seed}) :
          Apply(t, K_Rand(self, call[t].wave, loc[t], e1, e2))

K_SpectrumStep(t) == pc[t] = "k_spectrum" /\ Apply(t, K_Spectrum(self, call[t].wave, loc[t]))

K_StoreStep(t) == pc[t] = "k_store" /\ Apply(t, K_Store(self, call[t].wave, loc[t]))

K_ReturnStep(t) == pc[t] = "k_return" /\ Apply(t, K_Return(self, call[t].wave, loc[t]))

Param_get_opdStep(t) ==
    pc[t] = "param_opd" /\ Apply(t, Param_get_opd(self, call[t].wave, loc[t]))

Zernike_get_opdStep(t) ==
    pc[t] = "zernike_opd" /\ Apply(t, Zernike_get_opd(self, call[t].wave, loc[t]))

Sine_get_opdStep(t) ==
    pc[t] = "sine_opd" /\ Apply(t, Sine_get_opd(self, call[t].wave, loc[t]))

WavefrontError_get_opdStep(t) ==
    pc[t] = "wfe_opd" /\ Apply(t, WavefrontError_get_opd(self, call[t].wave, loc[t]))

\* the caller has taken the result or the exception; the thread is free again
Finish(t) ==
    /\ pc[t] \in {"done", "raised"}
    /\ pc' = [pc EXCEPT ![t] = "idle"]
    /\ call' = [call EXCEPT ![t] = NoCall]
    /\ loc' = [loc EXCEPT ![t] = EmptyLoc]
    /\ ret' = [ret EXCEPT ![t] = NoRet]
    /\ UNCHANGED <<self, constructed, ctor>>

\* everything thread t can do
Runs(t) ==
    \/ \E w \in Waves \cup {NotAWavefront} : Call_get_opd(t, w)
    \/ \E wavelength \in {1, 2} : Call_get_Cn2(t, wavelength)
    \/ \E npix \in 1..MaxSymNpix, sign \in {1, -1}, e \in Entropy :
          Call_rand_symmetrized(t, npix, sign, e)
    \/ PS_EntryStep(t) \/ PS_DefaultStep(t) \/ PS_Times4Step(t) \/ PS_CheckStep(t)
    \/ PS_PsdStep(t) \/ PS_NoiseStep(t) \/ PS_SynthStep(t) \/ PS_CalibrateStep(t)
    \/ PS_CropStep(t) \/ PS_StoreStep(t) \/ PS_ReturnStep(t)
    \/ Stat_ScreenStep(t) \/ Stat_StoreStep(t) \/ Stat_ReturnStep(t)
    \/ K_RandStep(t) \/ K_SpectrumStep(t) \/ K_StoreStep(t) \/ K_ReturnStep(t)
    \/ Finish(t)

\* one caller: the calls on the object follow one another
Next ==
    \/ \E args \in PSArgs : NewPowerSpectrumWFE(args)
    \/ \E args \in StatArgs : NewStatisticalPSDWFE(args)
    \/ \E args \in KArgs : NewKolmogorovWFE(args)
    \/ Runs(1)

Spec == Init /\ [][Next]_vars


\* the objects that several callers share: fixed seeds, no rms calibration
PSArgsConc ==
    {a \in PSArgs : /\ a.seed # None /\ a.rms = None /\ a.radius = None
                    /\ a.incident_angle = 0 /\ ~a.apply_reflection
                    /\ a.screen_size \in {None, 4, 6}
                    /\ a.psd.psd_weight = <<>>}

KArgsConc ==
    {a \in KArgs : /\ a.seed # None /\ a.dz # None /\ a.r0 # None /\ a.Cn2 = None
                   /\ a.inner_scale # None /\ a.kind \in {"Kolmogorov", "von Karman"}}

\* several callers: the steps of their calls on the one object interleave
NextConc ==
    \/ \E args \in PSArgsConc : NewPowerSpectrumWFE(args)
    \/ \E args \in StatArgs : NewStatisticalPSDWFE(args)
    \/ \E args \in KArgsConc : NewKolmogorovWFE(args)
    \/ \E t \in Threads : Runs(t)

SpecConc == Init /\ [][NextConc]_vars

\* objects whose PSD terms may have inconsistent units, and the
\* configurations of KolmogorovWFE that get_opd refuses
PSArgsUnits ==
    {a \in [psd : PsdArgsUnits, seed : 1..MaxSeed, apply_reflection : {FALSE},
            screen_size : {None, 1, 4}, rms : {None}, incident_angle : {0},
            radius : {None}] : TRUE}

KArgsUnits ==
    {a \in KArgs : a.seed # None /\ a.dz # None /\ a.Cn2 # None}

\* one caller of such an object
NextUnits ==
    \/ \E args \in PSArgsUnits : NewPowerSpectrumWFE(args)
    \/ \E args \in StatArgs : NewStatisticalPSDWFE(args)
    \/ \E args \in KArgsUnits : NewKolmogorovWFE(args)
    \/ Runs(1)

SpecUnits == Init /\ [][NextUnits]_vars

\* everything thread t can do with a basis-expansion, sine or base source
RunsBasis(t) ==
    \/ \E w \in Waves \cup {NotAWavefront} : Call_get_opd(t, w)
    \/ Param_get_opdStep(t) \/ Zernike_get_opdStep(t)
    \/ Sine_get_opdStep(t) \/ WavefrontError_get_opdStep(t)
    \/ Finish(t)

\* one caller of a deterministic error source
NextBasis ==
    \/ \E args \in ParamArgs, has_Callable \in BOOLEAN : NewParameterizedWFE(args, has_Callable)
    \/ \E args \in ZernikeArgs : NewZernikeWFE(args)
    \/ \E args \in SineArgs : NewSineWaveWFE(args)
    \/ NewWavefrontError
    \/ RunsBasis(1)

SpecBasis == Init /\ [][NextBasis]_vars

(* --------------------- a call that runs on its own ----------------------- *)

\* the step of get_opd at position p
StepOf(p, obj, w, l, e) ==
    CASE p = "ps_entry" -> PS_Entry(obj, w, l)
      [] p = "ps_default" -> PS_Default(obj, w, l)
      [] p = "ps_times4" -> PS_Times4(obj, w, l)
      [] p = "ps_check" -> PS_Check(obj, w, l)
      [] p = "ps_psd" -> PS_Psd(obj, w, l)
      [] p = "ps_noise" -> PS_Noise(obj, w, l, e)
      [] p = "ps_synth" -> PS_Synth(obj, w, l)
      [] p = "ps_calibrate" -> PS_Calibrate(obj, w, l)
      [] p = "ps_crop" -> PS_Crop(obj, w, l)
      [] p = "ps_store" -> PS_Store(obj, w, l)
      [] p = "ps_return" -> PS_Return(obj, w, l)
      [] p = "stat_screen" -> Stat_Screen(obj, w, l, e)
      [] p = "stat_store" -> Stat_Store(obj, w, l)
      [] p = "stat_return" -> Stat_Return(obj, w, l)
      [] p = "k_rand" -> K_Rand(obj, w, l, e, e)
      [] p = "k_spectrum" -> K_Spectrum(obj, w, l)
      [] p = "k_store" -> K_Store(obj, w, l)
      [] p = "k_return" -> K_Return(obj, w, l)

RECURSIVE RunFrom(_, _, _)
RunFrom(r, w, e) ==
    IF r.pc \in {"done", "raised"} THEN r
    ELSE RunFrom(StepOf(r.pc, r.self, w, r.loc, e), w, e)

\* what get_opd(w) returns or raises on a newly constructed object with the
\* parameters of self, whose seed is fixed
FreshResult(w) ==
    IF check_wavefront_arg(constructed.cls, w) THEN Raise(ArgError)
    ELSE RunFrom(StepTo(EntryOf(constructed.cls), constructed, EmptyLoc), w,
                 constructed.seed).ret

Finished(t, m) == pc[t] \in {"done", "raised"} /\ call[t].m = m

(* -------------------------------- claims -------------------------------- *)

\* C1: with a fixed seed, get_opd(wave) returns what a freshly constructed
\* object with the same parameters returns for that wavefront, whatever
\* calls were made on the object before.
C1_PureFunction ==
    \A t \in Threads :
        (Finished(t, "get_opd") /\ self.seed # None)
            => ret[t] = FreshResult(call[t].wave)

\* C2: after any sequence of get_opd calls every field of the object other
\* than the cached opd has the value construction gave it.
C2_ConfigKept ==
    self.cls # "none" =>
        \A f \in DOMAIN constructed \ {"opd"} : self[f] = constructed[f]

\* C3: the array a returned by rand_symmetrized(N, s) satisfies
\* a[(N-i) mod N, (N-j) mod N] = s * a[i, j] for all i, j in 0..N-1.
C3_PointSymmetry ==
    \A t \in Threads :
        Finished(t, "rand_symmetrized") =>
            /\ ret[t].kind = "array"
            /\ LET N == call[t].npix
                   a == ret[t].arr.v
               IN  \A i, j \in 0..(N - 1) :
                       At(a, (N - i) % N, (N - j) % N) = call[t].sign * At(a, i, j)

\* C4: every successful PowerSpectrumWFE.get_opd(wave) returns an array of
\* the wavefront's shape.
C4_ShapeOfWave ==
    \A t \in Threads :
        (pc[t] = "done" /\ call[t].m = "get_opd" /\ self.cls = "PowerSpectrumWFE")
            => ret[t].arr.n = call[t].wave.shape

\* the positions of PowerSpectrumWFE.get_opd after the size check
PastSizeCheck == {"ps_psd", "ps_noise", "ps_synth", "ps_calibrate", "ps_crop",
                  "ps_store", "ps_return", "done"}

SizeError(t) == pc[t] = "raised" /\ ret[t].exc = "Exception"

\* screen_size is smaller than the unpadded size of w: shape/oversample when
\* w is padded, shape otherwise
TooSmall(screen_size, w) ==
    IF w.ispadded THEN screen_size * w.oversample < w.shape ELSE screen_size < w.shape

\* C5: a PowerSpectrumWFE.get_opd whose screen_size is smaller than the
\* unpadded wavefront size ends in the size error, with no PSD evaluated, no
\* random number drawn and no FFT run; a call whose screen_size is at least
\* the unpadded size never ends in the size error.
C5_SizeCheckFirst ==
    \A t \in Threads :
        (call[t].m = "get_opd" /\ self.cls = "PowerSpectrumWFE"
         /\ IsWavefront(call[t].wave)) =>
            /\ (pc[t] \in PastSizeCheck \/ (pc[t] = "raised" /\ ~SizeError(t)))
                  => ~TooSmall(self.screen_size, call[t].wave)
            /\ SizeError(t) =>
                  /\ self.screen_size # None
                  /\ TooSmall(self.screen_size, call[t].wave)
                  /\ loc[t].psd = None
                  /\ loc[t].noise = NoArray
                  /\ loc[t].ffts = 0

\* C5 happens: a call has ended in the size error
C5_Witness ==
    \E t \in Threads :
        /\ SizeError(t)
        /\ call[t].m = "get_opd"
        /\ self.cls = "PowerSpectrumWFE"
        /\ TooSmall(self.screen_size, call[t].wave)


\* a finished PowerSpectrumWFE.get_opd of thread t that returned an array
\* and was asked to calibrate the rms
Calibrated(t) ==
    /\ pc[t] = "done"
    /\ call[t].m = "get_opd"
    /\ self.cls = "PowerSpectrumWFE"
    /\ self.rms # None

\* the mean square, over the pixels of the wavefront grid where the aperture
\* of self.radius transmits, of the array thread t got, centred on that grid
ReturnedMeanSquare(t) ==
    MeanSquare(PadOrCrop(ret[t].arr, call[t].wave.shape), self.radius)

\* C6 as claimed: the rms of the returned array over the aperture equals the
\* configured rms, for every apply_reflection, incident_angle and screen_size.
C6_RmsIsTarget ==
    \A t \in Threads :
        Calibrated(t) => ReturnedMeanSquare(t) = <<self.rms * self.rms, 1>>

\* C6 as amended: the rms of the returned array over the aperture equals the
\* configured rms divided by cos(incident_angle), and doubled when
\* apply_reflection is set.
C6_RmsIsScaledTarget ==
    \A t \in Threads :
        Calibrated(t) =>
            ReturnedMeanSquare(t) =
                FMul(FDiv(<<self.rms * self.rms, 1>>, Cos2(self.incident_angle)),
                     IF self.apply_reflection THEN <<4, 1>> ELSE <<1, 1>>)

\* C6 happens: a calibrated screen larger than the wavefront, tilted and
\* doubled, was cropped and returned
C6_Witness ==
    \E t \in Threads :
        /\ Calibrated(t)
        /\ self.apply_reflection
        /\ self.incident_angle # 0
        /\ self.screen_size > call[t].wave.shape
        /\ ret[t].arr.q[2] # 0

\* C7: constructing a KolmogorovWFE raises the configuration ValueError
\* exactly when dz is None or both r0 and Cn2 are None, and succeeds otherwise.
C7_ConstructorRejects ==
    ctor.cls = "KolmogorovWFE" =>
        IF ctor.args.dz = None \/ (ctor.args.r0 = None /\ ctor.args.Cn2 = None)
        THEN ctor.exc = "ValueError: dz and either Cn2 or r0 must be given"
        ELSE ctor.exc = "none"

\* C8: a KolmogorovWFE.get_opd that ends in the von Karman outer-scale
\* error has drawn no random number.
C8_ErrorBeforeDraw ==
    \A t \in Threads :
        (/\ Finished(t, "get_opd")
         /\ self.cls = "KolmogorovWFE"
         /\ ret[t].exc = "ValueError: the outer scale L_0 must be provided")
            => loc[t].a = NoArray

\* C9: with a fixed seed (and, for PowerSpectrumWFE, a screen_size given at
\* construction), a get_opd that interleaves with another get_opd on the
\* same object returns what it returns when it runs alone.
C9_Reentrant ==
    \A t \in Threads :
        (/\ Finished(t, "get_opd")
         /\ self.seed # None
         /\ (self.cls = "PowerSpectrumWFE" => constructed.screen_size # None))
            => ret[t] = FreshResult(call[t].wave)

\* C10: get_Cn2(wavelength) returns wavelength^2/dz * (r0/0.185)^(-5/3)
\* exactly when r0 is set, whether or not Cn2 is set too, and the Cn2 given to
\* the constructor otherwise, whatever calls were made before.
C10_Cn2Resolution ==
    \A t \in Threads :
        Finished(t, "get_Cn2") =>
            /\ ret[t].kind = "value"
            /\ IF self.r0 # None
               THEN /\ ret[t].val.form = "derived"
                    /\ ret[t].val.wavelength = call[t].wavelength
                    /\ ret[t].val.dz = ctor.args.dz
                    /\ ret[t].val.r0 = ctor.args.r0
               ELSE /\ ret[t].val.form # "derived"
                    /\ ret[t].val.Cn2 = ctor.args.Cn2
                    /\ (ctor.args.Cn2 # None => ret[t].val.form = "Cn2")

\* C10 happens: get_Cn2 was called, after an earlier call had stored an opd,
\* on an object given both r0 and Cn2
C10_Witness ==
    \E t \in Threads :
        /\ Finished(t, "get_Cn2")
        /\ self.r0 # None
        /\ self.Cn2 # None
        /\ self.opd # NoArray


\* the positions of PowerSpectrumWFE.get_opd after the PSD loop
PastPsdLoop == {"ps_noise", "ps_synth", "ps_calibrate", "ps_crop",
                "ps_store", "ps_return", "done"}

UnitError(t) == pc[t] = "raised" /\ ret[t].exc = "AssertionError"

\* C11: when a term of psd_parameters has a surface-roughness unit other
\* than beta's unit divided by (frequency unit^2)^(alpha/2), a get_opd that
\* passes the argument and size checks ends in the unit-mismatch error,
\* which is not the ValueError of other configuration mistakes, and never
\* gets to compute or return an OPD.
C11_UnitError ==
    \A t \in Threads :
        (/\ call[t].m = "get_opd"
         /\ self.cls = "PowerSpectrumWFE"
         /\ \E n \in DOMAIN self.psd_parameters : ~UnitsConsistent(self.psd_parameters[n]))
            => /\ pc[t] \notin PastPsdLoop
               /\ pc[t] = "raised" =>
                     \/ UnitError(t)
                     \/ SizeError(t)
                     \/ ret[t].exc = ArgError

\* a finished get_opd of thread t on a ParameterizedWFE, given a wavefront
ParamCall(t) ==
    /\ Finished(t, "get_opd")
    /\ self.cls = "ParameterizedWFE"
    /\ IsWavefront(call[t].wave)

\* C12: ParameterizedWFE.get_opd returns no OPD array when basis_factory
\* returns more or fewer term arrays than there are coefficients, nor when
\* the normalization radius is zero or negative.  (The radius of a
\* ZernikeWFE goes to CircularAperture, outside wfe.py, at construction.)
C12_BasisRejects ==
    \A t \in Threads :
        (ParamCall(t) /\ (self.basis_factory.extra # 0 \/ self.radius <= 0))
            => pc[t] = "raised"

\* the sum over the first n coefficients of coefficient * term, an all-zero
\* array standing for the term of a zero coefficient
RECURSIVE ExpansionSum(_, _, _, _)
ExpansionSum(coefficients, n, shape, radius) ==
    IF n = 0 THEN Zeros(shape)
    ELSE LET rest == ExpansionSum(coefficients, n - 1, shape, radius)
         IN  [r \in 1..shape |-> [c \in 1..shape |->
                 rest[r][c] + coefficients[n]
                     * (IF coefficients[n] = 0 THEN 0
                        ELSE BasisTerm(n, shape, radius, r - 1, c - 1))]]

\* C13: when basis_factory returns a term for every non-zero coefficient,
\* ParameterizedWFE.get_opd returns, at every pixel, the sum of coefficient_i *
\* term_i with an all-zero array in place of every zero-coefficient term;
\* ZernikeWFE.get_opd returns that sum inside the aperture and 0 outside.
C13_ExpansionIsSum ==
    \A t \in Threads :
        /\ (/\ ParamCall(t)
            /\ \A idx \in DOMAIN self.coefficients :
                   self.coefficients[idx] # 0
                       => idx <= Len(self.coefficients) + self.basis_factory.extra)
               => /\ ret[t].kind = "array"
                  /\ ret[t].arr.v = ExpansionSum(self.coefficients, Len(self.coefficients),
                                                 call[t].wave.shape, self.radius)
        /\ (Finished(t, "get_opd") /\ self.cls = "ZernikeWFE" /\ IsWavefront(call[t].wave))
               => /\ ret[t].kind = "array"
                  /\ LET sum == ExpansionSum(self.coefficients, Len(self.coefficients),
                                             call[t].wave.shape, self.radius)
                         n == call[t].wave.shape
                     IN  \A i, j \in 0..(n - 1) :
                             At(ret[t].arr.v, i, j) =
                                 IF Transmits(n, self.radius, i, j) THEN At(sum, i, j) ELSE 0

\* C13 happens: an expansion whose zero coefficient has no term array was
\* returned, and it is not zero everywhere
C13_Witness ==
    \E t \in Threads :
        /\ ParamCall(t)
        /\ ret[t].kind = "array"
        /\ self.coefficients = <<2, 0>>
        /\ self.basis_factory.extra = -1
        /\ \E i, j \in 0..(call[t].wave.shape - 1) : At(ret[t].arr.v, i, j) # 0

\* a finished PowerSpectrumWFE.get_opd of thread t with a fixed seed, given a
\* wavefront
SeededPSCall(t) ==
    /\ Finished(t, "get_opd")
    /\ self.cls = "PowerSpectrumWFE"
    /\ self.seed # None
    /\ IsWavefront(call[t].wave)

\* what the call of thread t returns or raises on the object it found, with
\* apply_reflection set to b
WithReflection(t, b) ==
    RunFrom(StepTo("ps_entry", [call[t].obj EXCEPT !.apply_reflection = b], EmptyLoc),
            call[t].wave, self.seed).ret

\* C14: with everything else equal, PowerSpectrumWFE.get_opd with
\* apply_reflection=True returns, element by element, 2 times the array it
\* returns with apply_reflection=False, of the same shape, and fails in the
\* same cases with the same error.
C14_ReflectionDoubles ==
    \A t \in Threads :
        SeededPSCall(t) =>
            LET on == WithReflection(t, TRUE)
                off == WithReflection(t, FALSE)
            IN  /\ ret[t] = WithReflection(t, self.apply_reflection)
                /\ on.kind = off.kind
                /\ on.exc = off.exc
                /\ on.arr = [off.arr EXCEPT !.q = FMul(off.arr.q, <<4, 1>>)]

\* C14 happens: a screen was calibrated, tilted, doubled, cropped and returned
C14_Witness ==
    \E t \in Threads :
        /\ SeededPSCall(t)
        /\ pc[t] = "done"
        /\ self.apply_reflection
        /\ self.rms # None
        /\ self.incident_angle # 0
        /\ self.screen_size > call[t].wave.shape
        /\ ret[t].arr.q[1] # 0

\* the seeds a RandomState of the model may have
Seeds == (1..MaxSeed) \cup Entropy

\* C15: for a fixed integer seed, the samples from which rand_turbulent builds
\* the sign=-1 field b are not the samples from which it builds the sign=+1
\* field a: no single generator stream yields both.
C15_IndependentDraws ==
    \A t \in Threads :
        (self.cls = "KolmogorovWFE" /\ self.seed # None /\ loc[t].a # NoArray) =>
            ~ \E seed \in Seeds :
                /\ loc[t].a.v = rand_symmetrized(loc[t].a.n, 1, seed).arr.v
                /\ loc[t].a.vi = rand_symmetrized(loc[t].a.n, -1, seed).arr.v

\* C16: for every screen_size N that passes the size check the frequency grid
\* is N x N, the shape of the random field, and get_opd does not fail on a
\* shape mismatch.
C16_GridIsScreenSize ==
    \A t \in Threads :
        (/\ call[t].m = "get_opd"
         /\ self.cls = "PowerSpectrumWFE"
         /\ loc[t].kshape # None)
            => /\ loc[t].kshape = self.screen_size
               /\ ~(pc[t] = "raised" /\ ret[t].exc = "ValueError")

\* C17: get_opd of every error source, given an argument that is not a
\* BaseWavefront, raises the ValueError of _check_wavefront_arg before
\* anything else of the method has run.
C17_ArgumentChecked ==
    \A t \in Threads :
        (call[t].m = "get_opd" /\ ~IsWavefront(call[t].wave))
            => /\ pc[t] = "raised"
               /\ ret[t].exc = ArgError
               /\ loc[t] = EmptyLoc
               /\ self = call[t].obj

\* the errors of get_opd that C18 names
ConfigErrors ==
    {"Exception", "AssertionError", ArgError,
     "ValueError: Kind of power spectrum not correctly defined",
     "ValueError: the outer scale L_0 must be provided",
     "ValueError: the inner scale l_0 must be provided"}

\* C18: a get_opd that ends in one of these errors leaves every field of the
\* object, screen_size and the cached opd included, as the call found it.
C18_ErrorLeavesObject ==
    \A t \in Threads :
        (/\ call[t].m = "get_opd"
         /\ pc[t] = "raised"
         /\ ret[t].exc \in ConfigErrors)
            => self = call[t].obj

====
